---- MODULE Spec2Model ----
(***************************************************************************)
(* Model of app.py of AI-Video-Summarizer: the retry helper                *)
(* run_with_retries and the "Analyze Video" button handler of the          *)
(* Streamlit script.                                                       *)
(*                                                                         *)
(* Error messages are sequences of one-character strings, so that the      *)
(* substring tests and the two regular expressions of run_with_retries     *)
(* are computed character by character.  Waits are in milliseconds, so     *)
(* that float("12.5") is the integer 12500.                                *)
(***************************************************************************)
EXTENDS Integers, Sequences, FiniteSets, TLC

\* ---------------------------------------------------------------- bounds
MaxAttemptsBound == 7   \* largest max_attempts passed to run_with_retries
MaxFrags == 2           \* fragments per error message
MaxPolls == 3           \* get_file calls explored per request
ConcMaxAttempts == 2    \* largest max_attempts of two interleaved executions

\* ------------------------------------------------------- program constants
BackoffCap == 60
DefaultMaxAttempts == 3

\* -------------------------------------------------------- error messages
F_429 == <<"4","2","9">>
F_Quota == <<"Q","u","o","t","a"," ","e","x","c","e","e","d","e","d">>
F_quota == <<"q","u","o","t","a"," ","e","x","c","e","e","d","e","d">>
F_Rate == <<"R","a","t","e"," ","L","i","m","i","t">>
F_retryIn == <<"r","e","t","r","y"," ","i","n"," ","1","2",".","5","s">>
F_retryDelay == <<"r","e","t","r","y","_","d","e","l","a","y"," ","{"," ","s","e","c","o","n","d","s",":"," ","7"," ","}">>
F_retryDelayNL == <<"r","e","t","r","y","_","d","e","l","a","y"," ","{","\n"," ","s","e","c","o","n","d","s",":"," ","8"," ","}">>
F_fatal == <<"i","n","v","a","l","i","d"," ","k","e","y">>

\* what the failure is about
Heads == { F_429, F_Quota, F_quota, F_Rate, F_fatal }

\* what the service adds to it
Details == { F_retryIn, F_retryDelay, F_retryDelayNL }

RECURSIVE Join(_)
Join(fs) ==
    IF Len(fs) = 0 THEN <<>>
    ELSE IF Len(fs) = 1 THEN fs[1]
    ELSE fs[1] \o <<" ">> \o Join(Tail(fs))

\* str(e) of the exceptions the remote calls raise: a head and up to
\* MaxFrags details, separated by blanks
Messages ==
    UNION { { Join(<<h>> \o ds) : h \in Heads, ds \in [1..n -> Details] } :
            n \in 0..MaxFrags }

\* ------------------------------------------------------ string primitives
UpperLetters ==
    <<"A","B","C","D","E","F","G","H","I","J","K","L","M",
      "N","O","P","Q","R","S","T","U","V","W","X","Y","Z">>
LowerLetters ==
    <<"a","b","c","d","e","f","g","h","i","j","k","l","m",
      "n","o","p","q","r","s","t","u","v","w","x","y","z">>

LowerChar(c) ==
    IF \E i \in 1..26 : UpperLetters[i] = c
    THEN LowerLetters[CHOOSE i \in 1..26 : UpperLetters[i] = c]
    ELSE c

\* str.lower()
Lower(s) == [i \in 1..Len(s) |-> LowerChar(s[i])]

\* p occurs in s at index i
MatchAt(s, i, p) ==
    /\ i >= 1
    /\ i + Len(p) - 1 <= Len(s)
    /\ SubSeq(s, i, i + Len(p) - 1) = p

\* "p in s"
Contains(s, p) == \E i \in 1..Len(s) : MatchAt(s, i, p)

Digits == <<"0","1","2","3","4","5","6","7","8","9">>
IsDigit(c) == \E d \in 1..10 : Digits[d] = c
DigitVal(c) == (CHOOSE d \in 1..10 : Digits[d] = c) - 1

\* \s of the re module, restricted to the characters of the messages
IsSpace(c) == c \in {" ", "\n", "\t", "\r"}

Min(a, b) == IF a <= b THEN a ELSE b

SetMin(S) == CHOOSE x \in S : \A y \in S : x <= y
SetMax(S) == CHOOSE x \in S : \A y \in S : x >= y

\* ---------------------------------------------- run_with_retries: helpers
\* the condition of the except branch: is the failure a rate limit?
IsRateLimit(m) ==
    \/ Contains(m, <<"4","2","9">>)
    \/ Contains(m, <<"Q","u","o","t","a"," ","e","x","c","e","e","d","e","d">>)
    \/ Contains(Lower(m), <<"r","a","t","e"," ","l","i","m","i","t">>)

\* first index >= j of s that does not hold a digit (Len(s)+1 if none)
RECURSIVE DigitRunEnd(_, _)
DigitRunEnd(s, j) ==
    IF j <= Len(s) /\ IsDigit(s[j]) THEN DigitRunEnd(s, j + 1) ELSE j

\* first index >= j of s that is neither ":" nor white space
RECURSIVE SepRunEnd(_, _)
SepRunEnd(s, j) ==
    IF j <= Len(s) /\ (s[j] = ":" \/ IsSpace(s[j])) THEN SepRunEnd(s, j + 1) ELSE j

\* end (exclusive) of the greedy match of \d+(?:\.\d+)? starting at j, or 0
NumEnd(s, j) ==
    IF ~(j <= Len(s) /\ IsDigit(s[j])) THEN 0
    ELSE LET k == DigitRunEnd(s, j)
         IN  IF k + 1 <= Len(s) /\ s[k] = "." /\ IsDigit(s[k + 1])
             THEN DigitRunEnd(s, k + 1)
             ELSE k

LitRetryIn == <<"r","e","t","r","y"," ","i","n"," ">>
LitRetryDelay == <<"r","e","t","r","y","_","d","e","l","a","y">>
LitSeconds == <<"s","e","c","o","n","d","s">>

\* end (exclusive) of the number of r"retry in (\d+(?:\.\d+)?)s" matched at
\* i, or 0: the number is followed by "s", with or without its fraction
RetryInNumEnd(s, i) ==
    IF ~MatchAt(s, i, LitRetryIn) THEN 0
    ELSE LET j == i + Len(LitRetryIn)
             full == NumEnd(s, j)
             ints == DigitRunEnd(s, j)
         IN  IF full = 0 THEN 0
             ELSE IF full <= Len(s) /\ s[full] = "s" THEN full
             ELSE IF ints <= Len(s) /\ s[ints] = "s" THEN ints
             ELSE 0

\* group(1) of re.search(r"retry in (\d+(?:\.\d+)?)s", msg), <<>> for None
SearchRetryIn(s) ==
    LET starts == { i \in 1..Len(s) : RetryInNumEnd(s, i) # 0 }
    IN  IF starts = {} THEN <<>>
        ELSE LET i == SetMin(starts)
             IN  SubSeq(s, i + Len(LitRetryIn), RetryInNumEnd(s, i) - 1)

\* positions p of "seconds[:\s]+\d" that ".*" can reach from a
\* "retry_delay" at i: no newline between the two
RetryDelaySeconds(s, i) ==
    IF ~MatchAt(s, i, LitRetryDelay) THEN {}
    ELSE { p \in (i + Len(LitRetryDelay))..Len(s) :
             /\ \A k \in (i + Len(LitRetryDelay))..(p - 1) : s[k] # "\n"
             /\ MatchAt(s, p, LitSeconds)
             /\ SepRunEnd(s, p + Len(LitSeconds)) > p + Len(LitSeconds)
             /\ NumEnd(s, SepRunEnd(s, p + Len(LitSeconds))) # 0 }

\* group(1) of re.search(r"retry_delay.*seconds[:\s]+(\d+(?:\.\d+)?)", msg),
\* <<>> for None: leftmost "retry_delay", ".*" greedy
SearchRetryDelay(s) ==
    LET starts == { i \in 1..Len(s) : RetryDelaySeconds(s, i) # {} }
    IN  IF starts = {} THEN <<>>
        ELSE LET p == SetMax(RetryDelaySeconds(s, SetMin(starts)))
                 q == SepRunEnd(s, p + Len(LitSeconds))
             IN  SubSeq(s, q, NumEnd(s, q) - 1)

RECURSIVE IntOf(_)
IntOf(ds) ==
    IF Len(ds) = 0 THEN 0
    ELSE 10 * IntOf(SubSeq(ds, 1, Len(ds) - 1)) + DigitVal(ds[Len(ds)])

\* float(text) in milliseconds; text matches \d+(?:\.\d+)? and the messages
\* carry at most three digits after the point
ParseFloat(t) ==
    LET k == DigitRunEnd(t, 1)
        frac == IF k <= Len(t) THEN SubSeq(t, k + 1, Min(Len(t), k + 3)) ELSE <<>>
        scale == IF Len(frac) = 0 THEN 0
                 ELSE IF Len(frac) = 1 THEN 100
                 ELSE IF Len(frac) = 2 THEN 10 ELSE 1
    IN  1000 * IntOf(SubSeq(t, 1, k - 1)) + scale * IntOf(frac)

\* the exponential backoff without its cap
Backoff_NoCap(attempt) == 1000 * (2 ^ attempt)

\* min(60, 2**attempt), in milliseconds
Backoff(attempt) == 1000 * Min(BackoffCap, 2 ^ attempt)

\* the two searches in the other order
Hint_DelayFirst(m) ==
    LET m2 == SearchRetryDelay(m)
    IN  IF m2 # <<>> THEN m2 ELSE SearchRetryIn(m)

\* m of line 98: group(1) of the first search, of the second one when the
\* first finds nothing, <<>> when both find nothing
Hint(m) ==
    LET m1 == SearchRetryIn(m)
    IN  IF m1 # <<>> THEN m1 ELSE SearchRetryDelay(m)

\* Hint and IsRateLimit, tabulated over the messages
HintOf == [m \in Messages |-> Hint(m)]
RateLimitOf == [m \in Messages |-> IsRateLimit(m)]

\* the two searches, tabulated over the messages
RetryInOf == [m \in Messages |-> SearchRetryIn(m)]
RetryDelayOf == [m \in Messages |-> SearchRetryDelay(m)]

\* the value of `wait`
ComputeWait(m, attempt) ==
    IF HintOf[m] # <<>> THEN ParseFloat(HintOf[m]) ELSE Backoff(attempt)

\* a loop that runs once less: range(1, max_attempts)
RangeHasNext_OneLess(attempt, max) == attempt < max - 1

\* a loop that runs once more: range(1, max_attempts + 2)
RangeHasNext_OneMore(attempt, max) == attempt <= max

\* range(1, max_attempts + 1) yields a value after `attempt`
RangeHasNext(attempt, max) == attempt < max

\* an except branch that retries whatever the message
ExceptBranch_AlwaysRetry(m) == "retry"

\* which way the except branch goes for str(e) = m
ExceptBranch(m) == IF RateLimitOf[m] THEN "retry" ELSE "raise"

\* ------------------------------------------------------------------ state
VARIABLES
    \* one execution of run_with_retries
    rpc,            \* "idle", "try", "sleep", "returned", "raised", "exhausted"
    max_attempts,   \* the parameter
    attempt,        \* the loop variable
    msg,            \* str(e) of the last failure
    wait,           \* the last computed wait, in milliseconds
    invocations,    \* calls of agent.run made by this execution
    sleepCount,     \* calls of time.sleep made by this execution
    trace,          \* what happened, in order: "ok", "transient", "fatal", "sleep"
    \* one run of the script
    pc,             \* "start", "form", "upload", "poll", "end"
    clicked,        \* the Analyze button was pressed in this run
    user_query,     \* the text area
    tempExists,     \* the file at video_path exists
    processed_video,\* state name of the remote file, "none" before the upload
    uploadCalls,    \* calls of upload_file
    getFileCalls,   \* calls of get_file
    pollSleeps,     \* calls of time.sleep(1)
    runCalls,       \* calls of multimodal_Agent.run
    runHandleState, \* state name of the handle passed to multimodal_Agent.run
    failedAt,       \* the call that raised: "none", "upload", "poll", "analysis"
    error,          \* str(error) shown by st.error
    feedback,       \* what was shown: "warning", "error", "result"
    handle,         \* processed_video.name, "none" before the upload
    fetched,        \* the names passed to get_file
    observed,       \* the state names upload_file and get_file returned, in
                    \* order, as far as MaxPolls entries
    pollParity,     \* number of turns of the while loop, modulo 2
    \* two executions of run_with_retries with the same agent, interleaved
    cpc,            \* per execution: "idle", "try", "sleep", "returned", ...
    cmax,           \* per execution: max_attempts
    attemptOf,      \* per call frame: the loop variable attempt
    history,        \* per execution: what its invocations did, "ok" or str(e)
    cwaits          \* per execution: the waits it computed, in order

retryVars ==
    <<rpc, max_attempts, attempt, msg, wait, invocations, sleepCount, trace>>

flowVars ==
    <<pc, clicked, user_query, tempExists, processed_video, uploadCalls,
      getFileCalls, pollSleeps, runCalls, runHandleState, failedAt, error,
      feedback, handle, fetched, observed, pollParity>>

concVars == <<cpc, cmax, attemptOf, history, cwaits>>

vars == <<retryVars, flowVars, concVars>>

\* state names of the remote file; the script names only PROCESSING
States == {"PENDING", "PROCESSING", "READY", "FAILED"}

\* names the remote service gives to uploaded files
Handles == {"files/a", "files/b"}

\* texts the user can leave in the text area
Queries == {"", " ", "what happens?"}

RetryInit ==
    /\ rpc = "idle"
    /\ max_attempts = DefaultMaxAttempts
    /\ attempt = 0
    /\ msg = <<>>
    /\ wait = 0
    /\ invocations = 0
    /\ sleepCount = 0
    /\ trace = <<>>

FlowInit ==
    /\ pc = "start"
    /\ clicked = FALSE
    /\ user_query = ""
    /\ tempExists = FALSE
    /\ processed_video = "none"
    /\ uploadCalls = 0
    /\ getFileCalls = 0
    /\ pollSleeps = 0
    /\ runCalls = 0
    /\ runHandleState = "none"
    /\ failedAt = "none"
    /\ error = <<>>
    /\ feedback = <<>>
    /\ handle = "none"
    /\ fetched = {}
    /\ observed = <<>>
    /\ pollParity = 0

\* the executions that run at the same time
Execs == {1, 2}

ConcInit ==
    /\ cpc = [e \in Execs |-> "idle"]
    /\ cmax = [e \in Execs |-> DefaultMaxAttempts]
    /\ attemptOf = [e \in Execs |-> 0]
    /\ history = [e \in Execs |-> <<>>]
    /\ cwaits = [e \in Execs |-> <<>>]

Init == RetryInit /\ FlowInit /\ ConcInit

\* ------------------------------------------------------- run_with_retries
\* the call: the for loop starts, or ends at once when the range is empty
Enter ==
    /\ rpc = "idle"
    /\ \E n \in 0..MaxAttemptsBound :
         /\ max_attempts' = n
         /\ IF RangeHasNext(0, n)
            THEN attempt' = 1 /\ rpc' = "try"
            ELSE attempt' = 0 /\ rpc' = "exhausted"
    /\ UNCHANGED <<msg, wait, invocations, sleepCount, trace, flowVars>>
    /\ UNCHANGED concVars

\* agent.run returns and the result is not returned: the loop goes on
AgentRunReturns_NoReturn ==
    /\ rpc = "try"
    /\ invocations' = invocations + 1
    /\ trace' = Append(trace, "ok")
    /\ IF RangeHasNext(attempt, max_attempts)
       THEN attempt' = attempt + 1 /\ rpc' = "try"
       ELSE attempt' = attempt /\ rpc' = "exhausted"
    /\ UNCHANGED <<max_attempts, msg, wait, sleepCount, flowVars>>
    /\ UNCHANGED concVars

\* agent.run returns: return its result
AgentRunReturns ==
    /\ rpc = "try"
    /\ invocations' = invocations + 1
    /\ trace' = Append(trace, "ok")
    /\ rpc' = "returned"
    /\ UNCHANGED <<max_attempts, attempt, msg, wait, sleepCount, flowVars>>
    /\ UNCHANGED concVars

\* an except branch that does not sleep when no attempt is left
AgentRunRaises_NoLastSleep ==
    /\ rpc = "try"
    /\ \E m \in Messages :
         /\ msg' = m
         /\ trace' = Append(trace, IF RateLimitOf[m] THEN "transient" ELSE "fatal")
         /\ IF ExceptBranch(m) = "retry"
            THEN /\ wait' = ComputeWait(m, attempt)
                 /\ rpc' = IF RangeHasNext(attempt, max_attempts)
                           THEN "sleep" ELSE "exhausted"
            ELSE wait' = wait /\ rpc' = "raised"
    /\ invocations' = invocations + 1
    /\ UNCHANGED <<max_attempts, attempt, sleepCount, flowVars>>
    /\ UNCHANGED concVars

\* agent.run raises: classify, compute the wait or re-raise
AgentRunRaises ==
    /\ rpc = "try"
    /\ \E m \in Messages :
         /\ msg' = m
         /\ trace' = Append(trace, IF RateLimitOf[m] THEN "transient" ELSE "fatal")
         /\ IF ExceptBranch(m) = "retry"
            THEN wait' = ComputeWait(m, attempt) /\ rpc' = "sleep"
            ELSE wait' = wait /\ rpc' = "raised"
    /\ invocations' = invocations + 1
    /\ UNCHANGED <<max_attempts, attempt, sleepCount, flowVars>>
    /\ UNCHANGED concVars

\* time.sleep(wait); continue: next attempt, or the raise after the loop
Sleep ==
    /\ rpc = "sleep"
    /\ sleepCount' = sleepCount + 1
    /\ trace' = Append(trace, "sleep")
    /\ IF RangeHasNext(attempt, max_attempts)
       THEN attempt' = attempt + 1 /\ rpc' = "try"
       ELSE attempt' = attempt /\ rpc' = "exhausted"
    /\ UNCHANGED <<max_attempts, msg, wait, invocations, flowVars>>
    /\ UNCHANGED concVars

\* the execution is over; the next call starts afresh
Leave ==
    /\ rpc \in {"returned", "raised", "exhausted"}
    /\ rpc' = "idle"
    /\ max_attempts' = DefaultMaxAttempts
    /\ attempt' = 0
    /\ msg' = <<>>
    /\ wait' = 0
    /\ invocations' = 0
    /\ sleepCount' = 0
    /\ trace' = <<>>
    /\ UNCHANGED flowVars
    /\ UNCHANGED concVars

RetryNext ==
    \/ Enter
    \/ AgentRunReturns
    \/ AgentRunRaises
    \/ Sleep
    \/ Leave

RetrySpec == Init /\ [][RetryNext]_vars

\* ------------------------------- run_with_retries, two executions at once
\* the messages the interleaved executions meet: a rate limit without a
\* hint, a rate limit with a hint, and an error that is not a rate limit
ConcMessages == { F_429, Join(<<F_429, F_retryIn>>), F_fatal }

\* a loop variable shared by all executions
AttemptOwner_Shared(e) == 1

\* the call frame that holds the loop variable of execution e: its own
AttemptOwner(e) == e

CEnter(e) ==
    /\ cpc[e] = "idle"
    /\ \E n \in 0..ConcMaxAttempts :
         /\ cmax' = [cmax EXCEPT ![e] = n]
         /\ IF RangeHasNext(0, n)
            THEN /\ attemptOf' = [attemptOf EXCEPT ![AttemptOwner(e)] = 1]
                 /\ cpc' = [cpc EXCEPT ![e] = "try"]
            ELSE /\ attemptOf' = attemptOf
                 /\ cpc' = [cpc EXCEPT ![e] = "exhausted"]
    /\ UNCHANGED <<history, cwaits, retryVars, flowVars>>

CAgentRunReturns(e) ==
    /\ cpc[e] = "try"
    /\ history' = [history EXCEPT ![e] = Append(@, "ok")]
    /\ cpc' = [cpc EXCEPT ![e] = "returned"]
    /\ UNCHANGED <<cmax, attemptOf, cwaits, retryVars, flowVars>>

CAgentRunRaises(e) ==
    /\ cpc[e] = "try"
    /\ \E m \in ConcMessages :
         /\ history' = [history EXCEPT ![e] = Append(@, m)]
         /\ IF ExceptBranch(m) = "retry"
            THEN /\ cwaits' = [cwaits EXCEPT ![e] =
                                  Append(@, ComputeWait(m, attemptOf[AttemptOwner(e)]))]
                 /\ cpc' = [cpc EXCEPT ![e] = "sleep"]
            ELSE /\ cwaits' = cwaits
                 /\ cpc' = [cpc EXCEPT ![e] = "raised"]
    /\ UNCHANGED <<cmax, attemptOf, retryVars, flowVars>>

CSleep(e) ==
    /\ cpc[e] = "sleep"
    /\ IF RangeHasNext(attemptOf[AttemptOwner(e)], cmax[e])
       THEN /\ attemptOf' = [attemptOf EXCEPT ![AttemptOwner(e)] = @ + 1]
            /\ cpc' = [cpc EXCEPT ![e] = "try"]
       ELSE /\ attemptOf' = attemptOf
            /\ cpc' = [cpc EXCEPT ![e] = "exhausted"]
    /\ UNCHANGED <<cmax, history, cwaits, retryVars, flowVars>>

CLeave(e) ==
    /\ cpc[e] \in {"returned", "raised", "exhausted"}
    /\ cpc' = [cpc EXCEPT ![e] = "idle"]
    /\ cmax' = [cmax EXCEPT ![e] = DefaultMaxAttempts]
    /\ attemptOf' = [attemptOf EXCEPT ![AttemptOwner(e)] = 0]
    /\ history' = [history EXCEPT ![e] = <<>>]
    /\ cwaits' = [cwaits EXCEPT ![e] = <<>>]
    /\ UNCHANGED <<retryVars, flowVars>>

ConcNext ==
    \E e \in Execs :
        \/ CEnter(e)
        \/ CAgentRunReturns(e)
        \/ CAgentRunRaises(e)
        \/ CSleep(e)
        \/ CLeave(e)

ConcSpec == Init /\ [][ConcNext]_vars

\* run_with_retries alone, from attempt a on, on the outcomes outs of its
\* invocations: the waits it computes and how it stands after them
RECURSIVE SoloFrom(_, _, _, _)
SoloFrom(max, outs, a, ws) ==
    IF a > max THEN [status |-> "exhausted", calls |-> a - 1, waits |-> ws]
    ELSE IF a > Len(outs) THEN [status |-> "running", calls |-> a - 1, waits |-> ws]
    ELSE IF outs[a] = "ok" THEN [status |-> "returned", calls |-> a, waits |-> ws]
    ELSE IF ExceptBranch(outs[a]) = "retry"
         THEN SoloFrom(max, outs, a + 1, Append(ws, ComputeWait(outs[a], a)))
    ELSE [status |-> "raised", calls |-> a, waits |-> ws]

Solo(max, outs) == SoloFrom(max, outs, 1, <<>>)

\* ------------------------------------------------------ the script run
\* a test for None instead of a test for emptiness
QueryIsEmpty_OnlyNone(q) == FALSE

\* `not user_query`
QueryIsEmpty(q) == q = ""

\* an except clause that swallows the exception without st.error
HandlerFails_Silent(at, m) ==
    /\ failedAt' = at
    /\ error' = m
    /\ feedback' = feedback
    /\ tempExists' = FALSE
    /\ pc' = "end"

\* the except clause and the finally clause of the handler, after the call
\* `at` raised an exception whose text is m
HandlerFails(at, m) ==
    /\ failedAt' = at
    /\ error' = m
    /\ feedback' = Append(feedback, "error")
    /\ tempExists' = FALSE
    /\ pc' = "end"

\* a file is uploaded: the script writes it to a temporary file, shows the
\* player, the text area and the button
ScriptRunWithFile ==
    /\ pc = "start"
    /\ tempExists' = TRUE
    /\ pc' = "form"
    /\ UNCHANGED <<clicked, user_query, processed_video, uploadCalls,
                   getFileCalls, pollSleeps, runCalls, runHandleState,
                   failedAt, error, feedback, retryVars>>
    /\ UNCHANGED <<handle, fetched, observed, pollParity>>
    /\ UNCHANGED concVars

\* no file is uploaded: st.info, the script ends
ScriptRunNoFile ==
    /\ pc = "start"
    /\ pc' = "end"
    /\ UNCHANGED <<clicked, user_query, tempExists, processed_video,
                   uploadCalls, getFileCalls, pollSleeps, runCalls,
                   runHandleState, failedAt, error, feedback, retryVars>>
    /\ UNCHANGED <<handle, fetched, observed, pollParity>>
    /\ UNCHANGED concVars

\* st.button returns False: the script ends
NoClick ==
    /\ pc = "form"
    /\ \E q \in Queries : user_query' = q
    /\ pc' = "end"
    /\ UNCHANGED <<clicked, tempExists, processed_video, uploadCalls,
                   getFileCalls, pollSleeps, runCalls, runHandleState,
                   failedAt, error, feedback, retryVars>>
    /\ UNCHANGED <<handle, fetched, observed, pollParity>>
    /\ UNCHANGED concVars

\* the button is pressed and the text area is empty: st.warning
ClickAnalyzeEmpty ==
    /\ pc = "form"
    /\ \E q \in Queries :
         /\ QueryIsEmpty(q)
         /\ user_query' = q
    /\ clicked' = TRUE
    /\ feedback' = Append(feedback, "warning")
    /\ pc' = "end"
    /\ UNCHANGED <<tempExists, processed_video, uploadCalls, getFileCalls,
                   pollSleeps, runCalls, runHandleState, failedAt, error,
                   retryVars>>
    /\ UNCHANGED <<handle, fetched, observed, pollParity>>
    /\ UNCHANGED concVars

\* the button is pressed with a question: enter the try block
ClickAnalyze ==
    /\ pc = "form"
    /\ \E q \in Queries :
         /\ ~QueryIsEmpty(q)
         /\ user_query' = q
    /\ clicked' = TRUE
    /\ pc' = "upload"
    /\ UNCHANGED <<tempExists, processed_video, uploadCalls, getFileCalls,
                   pollSleeps, runCalls, runHandleState, failedAt, error,
                   feedback, retryVars>>
    /\ UNCHANGED <<handle, fetched, observed, pollParity>>
    /\ UNCHANGED concVars

\* upload_file returns a handle in some state
UploadReturns ==
    /\ pc = "upload"
    /\ uploadCalls' = uploadCalls + 1
    /\ \E st \in States :
         /\ processed_video' = st
         /\ observed' = <<st>>
    /\ \E h \in Handles : handle' = h
    /\ pc' = "poll"
    /\ UNCHANGED <<fetched, pollParity>>
    /\ UNCHANGED <<clicked, user_query, tempExists, getFileCalls, pollSleeps,
                   runCalls, runHandleState, failedAt, error, feedback,
                   retryVars>>
    /\ UNCHANGED concVars

\* a handler that answers a failed upload by uploading again
UploadRaises_Retry ==
    /\ pc = "upload"
    /\ uploadCalls' = uploadCalls + 1
    /\ UNCHANGED <<pc, clicked, user_query, tempExists, processed_video,
                   getFileCalls, pollSleeps, runCalls, runHandleState,
                   failedAt, error, feedback, handle, fetched, observed,
                   pollParity, retryVars>>
    /\ UNCHANGED concVars

\* upload_file raises
UploadRaises ==
    /\ pc = "upload"
    /\ uploadCalls' = uploadCalls + 1
    /\ \E m \in Messages : HandlerFails("upload", m)
    /\ UNCHANGED <<clicked, user_query, processed_video, getFileCalls,
                   pollSleeps, runCalls, runHandleState, retryVars>>
    /\ UNCHANGED <<handle, fetched, observed, pollParity>>
    /\ UNCHANGED concVars

\* a loop that goes on until the file is seen FAILED
StillProcessing_UntilFailed(st) == st # "FAILED"

\* the condition of the while loop
StillProcessing(st) == st = "PROCESSING"

\* a counter of calls, kept exact below MaxPolls: MaxPolls stands for
\* "MaxPolls or more"
Bump(n) == IF n < MaxPolls THEN n + 1 ELSE n

\* the history of returned states, kept as far as MaxPolls entries
Observe(h, st) == IF Len(h) < MaxPolls THEN Append(h, st) ELSE h

\* the argument of get_file
FetchName == handle

\* a turn of the loop that fetches without sleeping first
PollReturns_NoSleep ==
    /\ pc = "poll"
    /\ StillProcessing(processed_video)
    /\ getFileCalls' = Bump(getFileCalls)
    /\ pollParity' = 1 - pollParity
    /\ fetched' = fetched \cup {FetchName}
    /\ handle' = FetchName
    /\ \E st \in States :
         /\ processed_video' = st
         /\ observed' = Observe(observed, st)
    /\ UNCHANGED <<pc, clicked, user_query, tempExists, uploadCalls, runCalls,
                   pollSleeps, runHandleState, failedAt, error, feedback,
                   retryVars>>
    /\ UNCHANGED concVars

\* one turn of the while loop: time.sleep(1), get_file returns the file of
\* the name it was given, in some state
PollReturns ==
    /\ pc = "poll"
    /\ StillProcessing(processed_video)
    /\ pollSleeps' = Bump(pollSleeps)
    /\ getFileCalls' = Bump(getFileCalls)
    /\ pollParity' = 1 - pollParity
    /\ fetched' = fetched \cup {FetchName}
    /\ handle' = FetchName
    /\ \E st \in States :
         /\ processed_video' = st
         /\ observed' = Observe(observed, st)
    /\ UNCHANGED <<pc, clicked, user_query, tempExists, uploadCalls, runCalls,
                   runHandleState, failedAt, error, feedback, retryVars>>
    /\ UNCHANGED concVars

\* one turn of the while loop: time.sleep(1), get_file raises
PollRaises ==
    /\ pc = "poll"
    /\ StillProcessing(processed_video)
    /\ pollSleeps' = Bump(pollSleeps)
    /\ getFileCalls' = Bump(getFileCalls)
    /\ pollParity' = 1 - pollParity
    /\ fetched' = fetched \cup {FetchName}
    /\ \E m \in Messages : HandlerFails("poll", m)
    /\ UNCHANGED <<clicked, user_query, processed_video, uploadCalls,
                   runCalls, runHandleState, handle, observed, retryVars>>
    /\ UNCHANGED concVars

\* the loop is left; multimodal_Agent.run returns, the answer is shown and
\* the temporary file is unlinked
AnalysisReturns ==
    /\ pc = "poll"
    /\ ~StillProcessing(processed_video)
    /\ runCalls' = runCalls + 1
    /\ runHandleState' = processed_video
    /\ feedback' = Append(feedback, "result")
    /\ tempExists' = FALSE
    /\ pc' = "end"
    /\ UNCHANGED <<clicked, user_query, processed_video, uploadCalls,
                   getFileCalls, pollSleeps, failedAt, error, retryVars>>
    /\ UNCHANGED <<handle, fetched, observed, pollParity>>
    /\ UNCHANGED concVars

\* a handler that answers a failed analysis by ingesting the file again
AnalysisRaises_Restart ==
    /\ pc = "poll"
    /\ ~StillProcessing(processed_video)
    /\ runCalls' = runCalls + 1
    /\ runHandleState' = processed_video
    /\ pc' = "upload"
    /\ UNCHANGED <<clicked, user_query, tempExists, processed_video,
                   uploadCalls, getFileCalls, pollSleeps, failedAt, error,
                   feedback, handle, fetched, observed, pollParity,
                   retryVars>>
    /\ UNCHANGED concVars

\* the loop is left; multimodal_Agent.run raises
AnalysisRaises ==
    /\ pc = "poll"
    /\ ~StillProcessing(processed_video)
    /\ runCalls' = runCalls + 1
    /\ runHandleState' = processed_video
    /\ \E m \in Messages : HandlerFails("analysis", m)
    /\ UNCHANGED <<clicked, user_query, processed_video, uploadCalls,
                   getFileCalls, pollSleeps, retryVars>>
    /\ UNCHANGED <<handle, fetched, observed, pollParity>>
    /\ UNCHANGED concVars

\* the next interaction runs the script again, from the top
Rerun ==
    /\ pc = "end"
    /\ pc' = "start"
    /\ clicked' = FALSE
    /\ user_query' = ""
    /\ tempExists' = FALSE
    /\ processed_video' = "none"
    /\ uploadCalls' = 0
    /\ getFileCalls' = 0
    /\ pollSleeps' = 0
    /\ runCalls' = 0
    /\ runHandleState' = "none"
    /\ failedAt' = "none"
    /\ error' = <<>>
    /\ feedback' = <<>>
    /\ handle' = "none"
    /\ fetched' = {}
    /\ observed' = <<>>
    /\ pollParity' = 0
    /\ UNCHANGED retryVars
    /\ UNCHANGED concVars

Next ==
    \/ ScriptRunWithFile
    \/ ScriptRunNoFile
    \/ NoClick
    \/ ClickAnalyzeEmpty
    \/ ClickAnalyze
    \/ UploadReturns
    \/ UploadRaises
    \/ PollReturns
    \/ PollRaises
    \/ AnalysisReturns
    \/ AnalysisRaises
    \/ Rerun

Spec == Init /\ [][Next]_vars

\* ------------------------------------------------------------ properties
Last(sq) == sq[Len(sq)]

\* every failure of this execution was classified as a rate limit
AllTransient == \A i \in 1..Len(trace) : trace[i] \in {"transient", "sleep"}

\* min(60, 2^n) seconds in milliseconds, written out
ExpectedFallback(n) == IF n >= 6 THEN 60000 ELSE 1000 * (2 ^ n)

\* the classification the specification describes
SpecTransient(m) ==
    \/ Contains(m, <<"4","2","9">>)
    \/ Contains(Lower(m), <<"q","u","o","t","a"," ","e","x","c","e","e","d","e","d">>)
    \/ Contains(Lower(m), <<"r","a","t","e"," ","l","i","m","i","t">>)

\* C1: with max_attempts >= 1, as long as every invocation of the action
\* fails with an error classified as a rate limit, the action is invoked at
\* most max_attempts times, the execution can only end with the exception
\* raised after the loop, and it ends so after exactly max_attempts
\* invocations.
C1_ExhaustedAfterMaxAttempts ==
    (max_attempts >= 1 /\ rpc # "idle" /\ AllTransient) =>
        /\ invocations <= max_attempts
        /\ rpc \in {"try", "sleep", "exhausted"}
        /\ rpc = "exhausted" => invocations = max_attempts
        /\ (invocations = max_attempts /\ sleepCount = max_attempts)
               => rpc = "exhausted"

C1_Witness ==
    /\ rpc = "exhausted"
    /\ max_attempts >= 2
    /\ invocations = max_attempts
    /\ AllTransient

\* C2: whenever multimodal_Agent.run has been called, the handle passed to
\* it was last seen in state READY.
C2_HandleReadyAtAnalysis == runCalls > 0 => runHandleState = "READY"

\* C3: when a request (a press of the button) has ended, on any path, the
\* temporary file no longer exists.
C3_TempReleasedOnEveryExit == (pc = "end" /\ clicked) => ~tempExists

\* C4: a rate-limit failure of the analysis call reaches the user as a
\* failure only after the retries are used up, that is after
\* DefaultMaxAttempts analysis calls.
C4_RateLimitRetriedEndToEnd ==
    (pc = "end" /\ failedAt = "analysis" /\ RateLimitOf[error])
        => runCalls = DefaultMaxAttempts

\* C5: a failure is retried exactly when its message contains "429", or
\* "quota exceeded" in any letter case, or "rate limit" in any letter case.
C5_Classification ==
    rpc \in {"sleep", "raised"} => ((rpc = "sleep") <=> SpecTransient(msg))

\* C6: a failure that is not a rate limit is the last thing an execution
\* does: it ends the execution with that error, and neither an invocation
\* nor a sleep follows it, whatever the attempt.
C6_FatalReraisedImmediately ==
    /\ \A i \in 1..Len(trace) :
         trace[i] = "fatal" => (i = Len(trace) /\ rpc = "raised")
    /\ rpc = "raised" => (trace # <<>> /\ Last(trace) = "fatal")

C6_Witness ==
    /\ rpc = "raised"
    /\ attempt >= 2
    /\ attempt < max_attempts
    /\ Last(trace) = "fatal"

\* C7: a successful invocation is the last thing an execution does: the
\* execution returns, and neither an invocation nor a sleep follows it,
\* whatever the attempt.
C7_SuccessReturnsImmediately ==
    /\ \A i \in 1..Len(trace) :
         trace[i] = "ok" => (i = Len(trace) /\ rpc = "returned")
    /\ rpc = "returned" => (trace # <<>> /\ Last(trace) = "ok")

C7_Witness ==
    /\ rpc = "returned"
    /\ attempt >= 2
    /\ attempt < max_attempts
    /\ Last(trace) = "ok"

\* C8: when the message of a rate-limit failure matches neither hint
\* pattern, the wait on attempt n is min(60, 2^n) seconds; it is at most 60
\* seconds and not smaller than the fallback wait of attempt n - 1.
C8_FallbackBackoff ==
    (rpc = "sleep" /\ RetryInOf[msg] = <<>> /\ RetryDelayOf[msg] = <<>>) =>
        /\ wait = ExpectedFallback(attempt)
        /\ wait <= 60000
        /\ attempt > 1 => ExpectedFallback(attempt - 1) <= wait

C8_Witness ==
    /\ rpc = "sleep"
    /\ RetryInOf[msg] = <<>>
    /\ RetryDelayOf[msg] = <<>>
    /\ attempt >= 6
    /\ wait = 60000

\* C9: the wait of a rate-limit failure is the number of the "retry in
\* <seconds>s" pattern when the message matches it, else the number of the
\* "retry_delay ... seconds: <seconds>" pattern when the message matches
\* that, else the exponential fallback; a hinted wait is the same on every
\* attempt ("retry in 12.5s" gives 12.5 s, "retry_delay { seconds: 7 }"
\* gives 7 s).
C9_HintPreferred ==
    rpc = "sleep" =>
        /\ wait = IF RetryInOf[msg] # <<>> THEN ParseFloat(RetryInOf[msg])
                  ELSE IF RetryDelayOf[msg] # <<>> THEN ParseFloat(RetryDelayOf[msg])
                  ELSE ExpectedFallback(attempt)
        /\ msg = Join(<<F_429, F_retryIn>>) => wait = 12500
        /\ msg = Join(<<F_429, F_retryDelay>>) => wait = 7000
        /\ msg = Join(<<F_429, F_retryDelay, F_retryIn>>) => wait = 12500

C9_Witness ==
    /\ rpc = "sleep"
    /\ attempt >= 2
    /\ RetryInOf[msg] # <<>>
    /\ RetryDelayOf[msg] # <<>>
    /\ ParseFloat(RetryDelayOf[msg]) # ParseFloat(RetryInOf[msg])
    /\ wait = 12500

\* C10: in a request made with an empty question no upload, no status
\* fetch and no analysis call is issued; the request ends with the warning.
C10_EmptyQueryNoNetwork ==
    (clicked /\ user_query = "") =>
        /\ uploadCalls = 0
        /\ getFileCalls = 0
        /\ runCalls = 0
        /\ pc = "end"
        /\ feedback = <<"warning">>

C10_Witness ==
    /\ clicked
    /\ user_query = ""
    /\ pc = "end"
    /\ feedback = <<"warning">>

\* C11: when the handle is seen in state FAILED, the request ends as a
\* failure: no analysis call is made and the user is shown one error.
C11_FailedHandleFailsRequest ==
    (pc = "end" /\ processed_video = "FAILED") =>
        /\ runCalls = 0
        /\ feedback = <<"error">>

\* the script is synchronous: once the handler runs, each of its calls
\* returns or raises and the next statement is executed; what the remote
\* service answers is not constrained
FairSpec ==
    /\ Spec
    /\ WF_vars(UploadReturns \/ UploadRaises)
    /\ WF_vars(PollReturns \/ PollRaises)
    /\ WF_vars(AnalysisReturns \/ AnalysisRaises)

\* C12: awaiting readiness always terminates: a request that has entered
\* the polling loop eventually ends, even when the remote file stays in
\* PROCESSING.
C12_PollingTerminates == (pc = "poll") ~> (pc = "end")

\* C13: when upload_file returns a handle that is already READY, the
\* request makes no get_file call and no poll sleep.
C13_ReadyAtUploadNoPoll ==
    (observed # <<>> /\ observed[1] = "READY") =>
        /\ getFileCalls = 0
        /\ pollSleeps = 0
        /\ fetched = {}
        /\ pollParity = 0

C13_Witness ==
    /\ observed = <<"READY">>
    /\ pc = "end"
    /\ runCalls = 1
    /\ getFileCalls = 0

\* C14: a request never shows more than one piece of feedback, and when it
\* has ended it has shown exactly one: the warning for an empty question,
\* the error when upload_file, get_file or multimodal_Agent.run raised, the
\* result otherwise.
C14_ExactlyOneFeedback ==
    /\ Len(feedback) <= 1
    /\ (pc = "end" /\ clicked) =>
         /\ Len(feedback) = 1
         /\ feedback[1] = IF user_query = "" THEN "warning"
                          ELSE IF failedAt # "none" THEN "error"
                          ELSE "result"
    /\ ~clicked => feedback = <<>>

C14_Witness ==
    /\ pc = "end"
    /\ clicked
    /\ failedAt = "poll"
    /\ feedback = <<"error">>

\* the state of the request's state machine that a position of the script
\* stands for; VALIDATING and ANALYZING are passed inside one step (the
\* test of the question, the call of multimodal_Agent.run)
PhaseOf(p, c, pv, fb) ==
    IF p \in {"start", "form"} THEN "INIT"
    ELSE IF p = "upload" THEN "INGESTING"
    ELSE IF p = "poll" THEN (IF pv = "PROCESSING" THEN "INGESTING" ELSE "READY")
    ELSE IF ~c THEN "INIT"
    ELSE IF fb = <<"result">> THEN "DONE"
    ELSE "FAILED"

PhaseRank(ph) ==
    IF ph = "INIT" THEN 0
    ELSE IF ph = "VALIDATING" THEN 1
    ELSE IF ph = "INGESTING" THEN 2
    ELSE IF ph = "READY" THEN 3
    ELSE IF ph = "ANALYZING" THEN 4
    ELSE 5

\* C15: every step of a request either stays in INIT or in INGESTING (the
\* script's own steps inside these states) or moves to a state later in
\* INIT, VALIDATING, INGESTING, READY, ANALYZING, DONE | FAILED; no state is
\* entered again once left, and the only step after DONE or FAILED is the
\* next run of the script, which starts a new request in INIT.
C15_StrictlyLinear ==
    [][ LET ph == PhaseOf(pc, clicked, processed_video, feedback)
            nx == PhaseOf(pc', clicked', processed_video', feedback')
        IN  IF PhaseRank(ph) = 5 \/ pc = "end"
            THEN pc' = "start" /\ nx = "INIT"
            ELSE IF nx = ph
            THEN ph \in {"INIT", "INGESTING"}
            ELSE PhaseRank(nx) > PhaseRank(ph) ]_vars

C15_Witness ==
    /\ pc = "end"
    /\ clicked
    /\ feedback = <<"result">>
    /\ getFileCalls >= 1
    /\ uploadCalls = 1
    /\ runCalls = 1

\* the remote reported PROCESSING k times and then READY
ProcessingThenReady(k) ==
    [i \in 1..(k + 1) |-> IF i <= k THEN "PROCESSING" ELSE "READY"]

\* C16: when the remote reported PROCESSING k times, then READY, and the
\* analysis call succeeded, the request made exactly k get_file calls, k
\* poll sleeps (one before each get_file) and 1 analysis call after 1
\* upload, and showed the result; at any moment there are as many poll
\* sleeps as get_file calls.
C16_PollsThenOneAnalysis ==
    /\ pollSleeps = getFileCalls
    /\ \A k \in 0..(MaxPolls - 1) :
         (pc = "end" /\ failedAt = "none" /\ observed = ProcessingThenReady(k)) =>
             /\ getFileCalls = k
             /\ pollSleeps = k
             /\ uploadCalls = 1
             /\ runCalls = 1
             /\ runHandleState = "READY"
             /\ feedback = <<"result">>
             /\ ~tempExists

C16_Witness ==
    /\ pc = "end"
    /\ failedAt = "none"
    /\ observed = ProcessingThenReady(2)
    /\ getFileCalls = 2
    /\ runCalls = 1
    /\ feedback = <<"result">>

\* run_with_retries is synchronous: a call of agent.run returns or raises,
\* and time.sleep returns
FairRetrySpec ==
    /\ RetrySpec
    /\ WF_vars(AgentRunReturns \/ AgentRunRaises)
    /\ WF_vars(Sleep)

Terminal == {"returned", "raised", "exhausted"}

\* the number of invocations so far that ended the execution by themselves
Decisive == Cardinality({ i \in 1..Len(trace) : trace[i] \in {"ok", "fatal"} })

\* C17: with max_attempts >= 1 and whatever the invocations do, an
\* execution never invokes the action more than max_attempts times, it
\* eventually ends, and when it has ended it has invoked the action at
\* least once and has exactly one outcome: the result of its last
\* invocation, the error of its last invocation, or the exception raised
\* after the loop when every invocation hit a rate limit.
C17_TerminatesWithOneOutcome ==
    /\ [](max_attempts >= 1 /\ rpc # "idle" =>
            /\ invocations <= max_attempts
            /\ Decisive <= 1
            /\ rpc \in Terminal =>
                 /\ invocations >= 1
                 /\ (rpc = "returned") <=> (Last(trace) = "ok")
                 /\ (rpc = "raised") <=> (Last(trace) = "fatal")
                 /\ (rpc = "exhausted") <=> (Decisive = 0))
    /\ (rpc \in {"try", "sleep"}) ~> (rpc \in Terminal)

C17_Witness ==
    /\ rpc = "raised"
    /\ max_attempts >= 3
    /\ invocations = max_attempts
    /\ Decisive = 1

\* C18: a request calls upload_file at most once; every get_file call is
\* made after that one upload and with the name of the handle it returned;
\* after a failed upload or a failed status fetch the request is over, with
\* no second upload and no analysis call.
C18_SingleIngestion ==
    /\ uploadCalls <= 1
    /\ getFileCalls > 0 => (uploadCalls = 1 /\ fetched = {handle})
    /\ getFileCalls = 0 => fetched = {}
    /\ handle # "none" => handle \in Handles
    /\ failedAt \in {"upload", "poll"} =>
         /\ pc = "end"
         /\ uploadCalls = 1
         /\ runCalls = 0

C18_Witness ==
    /\ pc = "end"
    /\ failedAt = "poll"
    /\ uploadCalls = 1
    /\ getFileCalls >= 2
    /\ fetched = {handle}

CountOf(ev) == Cardinality({ i \in 1..Len(trace) : trace[i] = ev })

\* C20: in run_with_retries every rate-limit failure is followed by a
\* sleep, the one of the last allowed attempt included: outside the moment
\* between a failure and its sleep there are as many sleeps as rate-limit
\* failures, and when the retries are used up max_attempts sleeps have
\* happened, the last of them being the last thing done before the raise.
C20_SleepAfterEveryTransient ==
    /\ sleepCount = CountOf("sleep")
    /\ \A i \in 1..(Len(trace) - 1) :
         trace[i] = "transient" => trace[i + 1] = "sleep"
    /\ IF rpc = "sleep"
       THEN Last(trace) = "transient" /\ CountOf("transient") = sleepCount + 1
       ELSE CountOf("transient") = sleepCount
    /\ rpc = "exhausted" =>
         /\ sleepCount = max_attempts
         /\ invocations = max_attempts
         /\ max_attempts >= 1 => Last(trace) = "sleep"

C20_Witness ==
    /\ rpc = "exhausted"
    /\ max_attempts >= 2
    /\ sleepCount = max_attempts
    /\ Last(trace) = "sleep"

\* C19: each of two interleaved executions invokes the action as often,
\* computes the same waits and stands or ends the same way as it does
\* running alone on the outcomes of its own invocations.
C19_OwnAttemptCounter ==
    \A e \in Execs :
        cpc[e] # "idle" =>
            LET solo == Solo(cmax[e], history[e])
            IN  /\ Len(history[e]) = solo.calls
                /\ cwaits[e] = solo.waits
                /\ cpc[e] \in {"returned", "raised", "exhausted"} => solo.status = cpc[e]
                /\ solo.status \in {"returned", "raised"} => cpc[e] = solo.status
                /\ solo.status = "exhausted" => cpc[e] \in {"sleep", "exhausted"}
                /\ solo.status = "running" => cpc[e] \in {"try", "sleep"}

C19_Witness ==
    /\ cmax[1] = 2
    /\ cmax[2] = 2
    /\ cpc[1] = "exhausted"
    /\ Len(history[1]) = 2
    /\ cpc[2] = "sleep"
    /\ Len(history[2]) = 2
    /\ cwaits[2] = <<12500, 4000>>

====
